---- MODULE Spec2Model ----
(***************************************************************************)
(* A model of server.c: a sequential HTTP/1.1 server.  main validates its  *)
(* arguments and calls startHttpServer, whose loop accepts one connection, *)
(* reads one buffer, parses it (parseHttpRequest), dispatches it           *)
(* (handleHttpRequest, handleGetRequest, ReadFile, HttpResponseToString),  *)
(* writes the response and closes the connection.                          *)
(*                                                                         *)
(* Bytes are one-character strings; a C string is the sequence of bytes    *)
(* before its terminator.  Pointers are records with a field ptr, "null"   *)
(* for the null pointer.                                                   *)
(***************************************************************************)
EXTENDS Integers, Sequences, FiniteSets, TLC

VARIABLES
    pc,                \* position of the server loop (startHttpServer and its callees)
    backlog,           \* connections waiting in the listen queue, oldest first
    cstate,            \* per client: "idle", "pending", "accepted", "closed"
    client_socket,     \* the client served by the current iteration, 0 for none
    open,              \* client sockets accepted and not yet closed
    buffer,            \* char buffer[30000] as a C string
    http,              \* HttpRequest *http
    response,          \* HttpResponse response of handleGetRequest
    size,              \* long size of handleGetRequest
    response_message,  \* char *response_message
    sent,              \* the bytes handed to send() in this iteration
    scan,              \* route lookup: index of the matched route (0 for none), the
                       \* indexes examined, the links given to ReadFile, the file
                       \* found there and whether ReadFile returned its content
    acquired,          \* per resource: acquisitions in this iteration
    released,          \* per resource: releases in this iteration
    log,               \* the last condition reported on stderr in this iteration
    crash,             \* where the process died, "" while it runs
    faulty,            \* whether allocation, formatting and read failures occur in this run
    mpc,               \* position of main
    argc,              \* main's argc
    ipOk,              \* whether inet_pton accepts argv[1]
    portArg,           \* the integer written in argv[2]
    portStr,           \* argv[2]
    port,              \* unsigned short port of main
    started,           \* the port startHttpServer was called with (host order), -1 for none
    exitCode           \* main's return value, -1 while it runs

vars == <<pc, backlog, cstate, client_socket, open, buffer, http, response, size,
          response_message, sent, scan, acquired, released, log, crash, faulty,
          mpc, argc, ipOk, portArg, portStr, port, started, exitCode>>

serverVars == <<pc, backlog, cstate, client_socket, open, buffer, http, response, size,
                response_message, sent, scan, acquired, released, log, crash, faulty>>

mainVars == <<mpc, argc, ipOk, portArg, portStr, port, started, exitCode>>

-----------------------------------------------------------------------------
(* Bounds of the model. *)

\* Number of clients that try to connect.
NumClients == 2

\* Longest file, in bytes, the file system holds.
MaxFileLen == 2

\* Port arguments are taken within this distance of each multiple of 65536.
PortWindow == 3

-----------------------------------------------------------------------------
(* Program constants. *)

MAX_METHOD_SIZE == 10
MAX_PATH_SIZE == 100
MAX_BODY_SIZE == 4096
SIZEOF_BODY_POINTER == 8
LISTEN_BACKLOG == 10
USHORT_MODULUS == 65536
MAX_PORT == 65534
EXIT_FAILURE == 1

-----------------------------------------------------------------------------
(* Bytes and C strings. *)

CR == "\r"
LF == "\n"
NUL == "NUL"

\* The null pointer where a string is expected.
NULL == <<"NULL">>

S_ContentLengthColon == <<"C", "o", "n", "t", "e", "n", "t", "-", "L", "e", "n", "g", "t", "h", ":">>

S_CRLFCRLF == <<CR, LF, CR, LF>>

S_HTTP11 == <<"H", "T", "T", "P", "/", "1", ".", "1", " ">>

S_ContentType == <<CR, LF, "C", "o", "n", "t", "e", "n", "t", "-", "T", "y", "p", "e", ":", " ", "t", "e", "x", "t", "/", "h", "t", "m", "l", ";", "c", "h", "a", "r", "s", "e", "t", "=", "U", "T", "F", "-", "8", CR, LF, "C", "o", "n", "t", "e", "n", "t", "-", "L", "e", "n", "g", "t", "h", ":", " ">>

S_NotFound == <<"N", "o", "t", " ", "F", "o", "u", "n", "d">>

S_OK == <<"O", "K">>

S_InternalServerError == <<"I", "n", "t", "e", "r", "n", "a", "l", " ", "S", "e", "r", "v", "e", "r", " ", "E", "r", "r", "o", "r">>

S_GET == <<"G", "E", "T">>

S_POST == <<"P", "O", "S", "T">>

S_GETX == <<"G", "E", "T", "X">>

P_Root == <<"/">>

P_Test == <<"/", "t", "e", "s", "t">>

P_Tes == <<"/", "t", "e", "s">>

P_TestSlash == <<"/", "t", "e", "s", "t", "/">>

P_Query == <<"/", "?", "q", "=", "1">>

P_Missing == <<"/", "m", "i", "s", "s", "i", "n", "g">>

L_Index == <<".", "/", "p", "u", "b", "l", "i", "c", "_", "h", "t", "m", "l", "/", "i", "n", "d", "e", "x", ".", "h", "t", "m", "l">>

L_Test == <<".", "/", "p", "u", "b", "l", "i", "c", "_", "h", "t", "m", "l", "/", "t", "e", "s", "t", ".", "h", "t", "m", "l">>

T_Plain == <<" ", "H", "T", "T", "P", "/", "1", ".", "1", CR, LF, CR, LF>>

T_Host == <<" ", "H", "T", "T", "P", "/", "1", ".", "1", CR, LF, "H", "o", "s", "t", ":", " ", "x", CR, LF, CR, LF>>

T_Body == <<" ", "H", "T", "T", "P", "/", "1", ".", "1", CR, LF, "C", "o", "n", "t", "e", "n", "t", "-", "L", "e", "n", "g", "t", "h", ":", " ", "5", CR, LF, CR, LF, "h", "e", "l", "l", "o">>

T_NoSep == <<" ", "H", "T", "T", "P", "/", "1", ".", "1", CR, LF, "C", "o", "n", "t", "e", "n", "t", "-", "L", "e", "n", "g", "t", "h", ":", " ", "5", CR, LF>>

T_Crlf == <<CR, LF, CR, LF>>

DigitChars == <<"0", "1", "2", "3", "4", "5", "6", "7", "8", "9">>

IsDigit(c) == \E i \in 1..10 : DigitChars[i] = c

DigitVal(c) == (CHOOSE i \in 1..10 : DigitChars[i] = c) - 1

\* isspace()
IsSpace(c) == c \in {" ", "\t", LF, CR, "\f"}

Min(a, b) == IF a < b THEN a ELSE b

Take(s, n) == SubSeq(s, 1, Min(n, Len(s)))

Drop(s, n) == SubSeq(s, n + 1, Len(s))

\* strlen(): the number of bytes before the first NUL.
Strlen(s) ==
    IF \E i \in 1..Len(s) : s[i] = NUL
    THEN (CHOOSE i \in 1..Len(s) : s[i] = NUL /\ \A j \in 1..(i - 1) : s[j] # NUL) - 1
    ELSE Len(s)

\* What a reader of a C string sees of a byte buffer.
CStr(s) == SubSeq(s, 1, Strlen(s))

\* strstr(): the position of the first occurrence of needle, 0 for none.
Strstr(haystack, needle) ==
    LET at == {i \in 1..(Len(haystack) - Len(needle) + 1) :
                  SubSeq(haystack, i, i + Len(needle) - 1) = needle}
    IN  IF at = {} THEN 0 ELSE CHOOSE i \in at : \A j \in at : i <= j

\* strncmp(a, b, n) == 0
StrncmpEq(a, b, n) == Take(a, n) = Take(b, n)

\* strtok(): the first position at or after pos that holds no delimiter.
SkipDelims(s, pos) ==
    LET rest == {i \in pos..Len(s) : s[i] # " "}
    IN  IF rest = {} THEN Len(s) + 1 ELSE CHOOSE i \in rest : \A j \in rest : i <= j

\* strtok(): the first position at or after pos that holds a delimiter.
TokenEnd(s, pos) ==
    LET rest == {i \in pos..Len(s) : s[i] = " "}
    IN  IF rest = {} THEN Len(s) + 1 ELSE CHOOSE i \in rest : \A j \in rest : i <= j

\* method = strtok(request_copy, " "); path = strtok(NULL, " ");
Strtok2(s) ==
    LET s1 == SkipDelims(s, 1)
        e1 == TokenEnd(s, s1)
        n1 == IF e1 <= Len(s) THEN e1 + 1 ELSE e1
        s2 == SkipDelims(s, n1)
        e2 == TokenEnd(s, s2)
    IN  [method |-> IF s1 > Len(s) THEN NULL ELSE SubSeq(s, s1, e1 - 1),
         path   |-> IF s1 > Len(s) \/ s2 > Len(s) THEN NULL ELSE SubSeq(s, s2, e2 - 1)]

RECURSIVE DigitsValue(_, _, _)
\* The value of the run of digits of s that starts at position i.
DigitsValue(s, i, acc) ==
    IF i <= Len(s) /\ IsDigit(s[i])
    THEN DigitsValue(s, i + 1, acc * 10 + DigitVal(s[i]))
    ELSE acc

\* The first position at or after pos that holds no white space.
SkipSpace(s, pos) ==
    LET rest == {i \in pos..Len(s) : ~IsSpace(s[i])}
    IN  IF rest = {} THEN Len(s) + 1 ELSE CHOOSE i \in rest : \A j \in rest : i <= j

\* sscanf(start, "Content-Length: %zu", &body_size), start at the header name:
\* the number converted, or the value the field had when nothing is converted.
ScanContentLength(s, old) ==
    LET p == SkipSpace(s, Len(S_ContentLengthColon) + 1)
    IN  IF p <= Len(s) /\ IsDigit(s[p]) THEN DigitsValue(s, p, 0) ELSE old

RECURSIVE ToDec(_)
\* printf's %d and %zu of a number that is not negative.
ToDec(n) ==
    IF n < 10 THEN <<DigitChars[n + 1]>>
    ELSE ToDec(n \div 10) \o <<DigitChars[(n % 10) + 1]>>

\* atoi(): optional white space, an optional sign, then digits.
Atoi(s) ==
    LET p == SkipSpace(s, 1)
        neg == p <= Len(s) /\ s[p] = "-"
        q == IF p <= Len(s) /\ s[p] \in {"-", "+"} THEN p + 1 ELSE p
        v == DigitsValue(s, q, 0)
    IN  IF neg THEN 0 - v ELSE v

-----------------------------------------------------------------------------
(* The file system and the File Loader. *)

\* A file that cannot be opened.
Missing == <<"MISSING">>

FileBytes == {"a", "b", NUL}

FileContents == UNION {[1..n -> FileBytes] : n \in 0..MaxFileLen}

Files == {Missing} \cup FileContents

\* ReadFile(filename, &size) on a file in state file; allocOk and readOk say
\* whether malloc and fread succeed.  The buffer holds the file and a terminator.
ReadFile(file, allocOk, readOk) ==
    IF file = Missing \/ ~allocOk \/ ~readOk
    THEN [ptr |-> "null"]
    ELSE [ptr |-> "file", bytes |-> file \o <<NUL>>, size |-> Len(file)]

-----------------------------------------------------------------------------
(* The Request Parser. *)

\* Whether parseHttpRequest reaches the copy of the body, which writes through
\* http->body, a null pointer since the memset of the structure.
NullBodyWrite(request) ==
    LET tok == Strtok2(request)
    IN  /\ tok.method # NULL
        /\ tok.path # NULL
        /\ Strstr(request, S_ContentLengthColon) # 0
        /\ Strstr(request, S_CRLFCRLF) # 0

\* size_t copy_size of parseHttpRequest: the bytes the body copy is asked to write.
CopySize(body_size) == Min(body_size, SIZEOF_BODY_POINTER - 1)

\* parseHttpRequest(request), the structure it returns when the body copy is
\* not reached; allocOk says whether malloc and strdup succeed.
parseHttpRequest(request, allocOk) ==
    LET tok == Strtok2(request)
        cl  == Strstr(request, S_ContentLengthColon)
    IN  IF ~allocOk THEN [ptr |-> "null"]
        ELSE IF tok.method # NULL /\ tok.path # NULL
        THEN [ptr       |-> "heap",
              method    |-> Take(tok.method, MAX_METHOD_SIZE - 1),
              path      |-> Take(tok.path, MAX_PATH_SIZE - 1),
              body      |-> NULL,
              body_size |-> IF cl # 0
                            THEN ScanContentLength(Drop(request, cl - 1), 0)
                            ELSE 0]
        ELSE [ptr |-> "heap", method |-> <<>>, path |-> <<>>,
              body |-> NULL, body_size |-> 0]

-----------------------------------------------------------------------------
(* The Response Builder. *)

\* HttpResponseToString(response, &size): the serialized response, NULL when
\* snprintf or malloc fails.  %s writes the content up to its first NUL.
HttpResponseToString(resp, ok) ==
    IF ~ok THEN NULL
    ELSE S_HTTP11 \o ToDec(resp.status_code) \o <<" ">> \o resp.status_message
         \o S_ContentType \o ToDec(resp.content_length) \o S_CRLFCRLF
         \o CStr(resp.content.bytes)

-----------------------------------------------------------------------------
(* The Route Table and the Dispatcher. *)

getRouteMappings ==
    << [path |-> P_Root, link |-> L_Index],
       [path |-> P_Test, link |-> L_Test] >>

\* A route lookup that compares only as many bytes as the route's path has.
PathMatchesPrefix(reqPath, routePath) == StrncmpEq(reqPath, routePath, Len(routePath))

\* strncmp(request->path, getRouteMappings[i].path, MAX_PATH_SIZE) == 0
PathMatches(reqPath, routePath) == StrncmpEq(reqPath, routePath, MAX_PATH_SIZE)

RECURSIVE ScanRoutes(_, _, _)
\* The for loop of handleGetRequest from index i on: the index of the first
\* matching route (0 for none) and the indexes examined.
ScanRoutes(reqPath, i, examined) ==
    IF i > Len(getRouteMappings)
    THEN [matched |-> 0, examined |-> examined]
    ELSE IF PathMatches(reqPath, getRouteMappings[i].path)
    THEN [matched |-> i, examined |-> Append(examined, i)]
    ELSE ScanRoutes(reqPath, i + 1, Append(examined, i))

\* The response on entry to handleGetRequest; allocOk says whether malloc(1) succeeds.
InitialResponse(allocOk) ==
    [status_code    |-> 404,
     status_message |-> S_NotFound,
     content_length |-> 0,
     content        |-> IF allocOk THEN [ptr |-> "empty", bytes |-> <<NUL>>]
                                   ELSE [ptr |-> "null"]]

\* A dispatcher that leaves the status at 200 when ReadFile fails.
RouteMatchedNo500(resp, content) ==
    IF content.ptr # "null"
    THEN [status_code    |-> 200,
          status_message |-> S_OK,
          content_length |-> content.size,
          content        |-> [ptr |-> "file", bytes |-> content.bytes]]
    ELSE [resp EXCEPT !.status_code = 200,
                      !.status_message = S_OK]

\* The body of the if of the route loop: the response once a route matched
\* and ReadFile returned content.
RouteMatched(resp, content) ==
    IF content.ptr # "null"
    THEN [status_code    |-> 200,
          status_message |-> S_OK,
          content_length |-> content.size,
          content        |-> [ptr |-> "file", bytes |-> content.bytes]]
    ELSE [resp EXCEPT !.status_code = 500,
                      !.status_message = S_InternalServerError]

\* strncmp(request->method, "GET", 3) == 0
IsGet(method) == StrncmpEq(method, S_GET, 3)

-----------------------------------------------------------------------------
(* main's conversions. *)

\* The decimal text of an integer, as written on the command line.
IntToStr(n) == IF n < 0 THEN <<"-">> \o ToDec(0 - n) ELSE ToDec(n)

\* unsigned short port = atoi(portStr);
ToUShort(n) == n % USHORT_MODULUS

\* port <= 0 || port > 65534
PortRejected(p) == p <= 0 \/ p > MAX_PORT

-----------------------------------------------------------------------------
(* Inputs. *)

Clients == 1..NumClients

\* A path longer than the path buffer.
LongPath == <<"/">> \o [i \in 1..(MAX_PATH_SIZE + 4) |-> "a"]

Methods == {S_GET, S_POST, S_GETX}

Paths == {P_Root, P_Test, P_Tes, P_TestSlash, P_Query, P_Missing, LongPath}

Tails == {<<>>, T_Plain, T_Host, T_Body, T_NoSep, T_Crlf}

\* What one recv() may deliver: request lines with and without headers and
\* body, a lone method, and nothing at all (the peer closed).
RecvData ==
    {m \o <<" ">> \o p \o t : m \in Methods, p \in Paths, t \in Tails}
    \cup {<<>>, S_GET, S_GET \o <<" ">>, <<" ">> \o S_GET \o <<" ">> \o P_Root}

PortArgs ==
    UNION {((k * USHORT_MODULUS) - PortWindow)..((k * USHORT_MODULUS) + PortWindow) :
              k \in {-1, 0, 1}}
    \cup ((MAX_PORT - PortWindow)..MAX_PORT)

\* The outcomes of a call that may fail in this run.
Outcomes == IF faulty THEN BOOLEAN ELSE {TRUE}

-----------------------------------------------------------------------------
(* State of the connection loop. *)

Resources == {"socket", "http", "empty", "file", "message"}

NoRequest == [ptr |-> "unset"]

NoResponse ==
    [status_code |-> 0, status_message |-> <<>>, content_length |-> 0,
     content |-> [ptr |-> "unset"]]

\* Nothing was handed to send().
NotSent == <<"NOTHING">>

NoScan ==
    [matched |-> 0, examined |-> <<>>, loads |-> <<>>, file |-> Missing, loaded |-> FALSE]

None == [r \in Resources |-> 0]

Acquire(a, r) == [a EXCEPT ![r] = @ + 1]

Release(a, r) == [a EXCEPT ![r] = @ + 1]

\* The server listening, before the first accept (startHttpServer up to the loop).
ServerInit ==
    /\ pc = "accept"
    /\ backlog = <<>>
    /\ cstate = [c \in Clients |-> "idle"]
    /\ client_socket = 0
    /\ open = {}
    /\ buffer = <<>>
    /\ http = NoRequest
    /\ response = NoResponse
    /\ size = 0
    /\ response_message = NULL
    /\ sent = NotSent
    /\ scan = NoScan
    /\ acquired = None
    /\ released = None
    /\ log = ""
    /\ crash = ""

Init ==
    /\ ServerInit
    /\ faulty \in BOOLEAN
    /\ mpc = "serving"
    /\ argc = 3
    /\ ipOk = TRUE
    /\ portArg = 8080
    /\ portStr = IntToStr(8080)
    /\ port = 8080
    /\ started = 8080
    /\ exitCode = -1

\* The process dies at the named place.  A read or write through the null
\* pointer ends a hosted process (no page is mapped at address 0); a second
\* free of a buffer is where allocators differ, see FreeContent.
Crash(site) ==
    /\ pc' = "crashed"
    /\ crash' = site

-----------------------------------------------------------------------------
(* Clients. *)

\* A client's connection completes the handshake and waits in the listen queue.
Connect(c) ==
    /\ crash = ""
    /\ cstate[c] = "idle"
    /\ Len(backlog) < LISTEN_BACKLOG
    /\ cstate' = [cstate EXCEPT ![c] = "pending"]
    /\ backlog' = Append(backlog, c)
    /\ UNCHANGED <<pc, client_socket, open, buffer, http, response, size,
                   response_message, sent, scan, acquired, released, log, crash, faulty>>
    /\ UNCHANGED mainVars

-----------------------------------------------------------------------------
(* startHttpServer: the loop. *)

\* accept() returns a connection; the locals of the iteration are fresh.
Accept ==
    /\ pc = "accept"
    /\ backlog # <<>>
    /\ LET c == Head(backlog)
       IN  /\ client_socket' = c
           /\ backlog' = Tail(backlog)
           /\ cstate' = [cstate EXCEPT ![c] = "accepted"]
           /\ open' = open \cup {c}
    /\ buffer' = <<>>
    /\ http' = NoRequest
    /\ response' = NoResponse
    /\ size' = 0
    /\ response_message' = NULL
    /\ sent' = NotSent
    /\ scan' = NoScan
    /\ acquired' = Acquire(None, "socket")
    /\ released' = None
    /\ log' = ""
    /\ pc' = "recv"
    /\ UNCHANGED <<crash, faulty>>
    /\ UNCHANGED mainVars

\* accept() returns -1: the error is reported and the loop continues.
AcceptFail ==
    /\ pc = "accept"
    /\ log' = "Error accepting client connection"
    /\ UNCHANGED <<pc, backlog, cstate, client_socket, open, buffer, http, response, size,
                   response_message, sent, scan, acquired, released, crash, faulty>>
    /\ UNCHANGED mainVars

\* recv() delivers data, or nothing when the peer closed.
Recv ==
    /\ pc = "recv"
    /\ \E data \in RecvData : buffer' = CStr(data)
    /\ pc' = "parse"
    /\ UNCHANGED <<backlog, cstate, client_socket, open, http, response, size,
                   response_message, sent, scan, acquired, released, log, crash, faulty>>
    /\ UNCHANGED mainVars

\* recv() returns -1: the connection is closed and the loop continues.
RecvFail ==
    /\ pc = "recv"
    /\ log' = "Error receiving data"
    /\ open' = open \ {client_socket}
    /\ cstate' = [cstate EXCEPT ![client_socket] = "closed"]
    /\ released' = Release(released, "socket")
    /\ pc' = "accept"
    /\ UNCHANGED <<backlog, client_socket, buffer, http, response, size,
                   response_message, sent, scan, acquired, crash, faulty>>
    /\ UNCHANGED mainVars

\* HttpRequest *http = parseHttpRequest(buffer);
Parse ==
    /\ pc = "parse"
    /\ \E allocOk \in Outcomes :
          IF allocOk /\ NullBodyWrite(buffer)
          THEN /\ Crash("parseHttpRequest: write through the null body pointer")
               /\ acquired' = Acquire(acquired, "http")
               /\ UNCHANGED http
          ELSE /\ http' = parseHttpRequest(buffer, allocOk)
               /\ acquired' = IF allocOk THEN Acquire(acquired, "http") ELSE acquired
               /\ pc' = "dispatch"
               /\ UNCHANGED crash
    /\ UNCHANGED <<backlog, cstate, client_socket, open, buffer, response, size,
                   response_message, sent, scan, released, log, faulty>>
    /\ UNCHANGED mainVars

\* handleHttpRequest(client_socket, http): the method check.
Dispatch ==
    /\ pc = "dispatch"
    /\ IF http.ptr = "null"
       THEN /\ Crash("handleHttpRequest: read through the null request")
            /\ UNCHANGED log
       ELSE IF IsGet(http.method)
       THEN /\ pc' = "get_init"
            /\ UNCHANGED <<log, crash>>
       ELSE /\ log' = "Unsupported HTTP method"
            /\ pc' = "close"
            /\ UNCHANGED crash
    /\ UNCHANGED <<backlog, cstate, client_socket, open, buffer, http, response, size,
                   response_message, sent, scan, acquired, released, faulty>>
    /\ UNCHANGED mainVars

\* handleGetRequest: the response starts as 404 with an empty content buffer.
GetInit ==
    /\ pc = "get_init"
    /\ \E allocOk \in Outcomes :
          /\ response' = InitialResponse(allocOk)
          /\ IF allocOk
             THEN /\ acquired' = Acquire(acquired, "empty")
                  /\ pc' = "route"
                  /\ UNCHANGED crash
             ELSE /\ Crash("handleGetRequest: strcpy to the null content")
                  /\ UNCHANGED acquired
    /\ size' = 0
    /\ UNCHANGED <<backlog, cstate, client_socket, open, buffer, http,
                   response_message, sent, scan, released, log, faulty>>
    /\ UNCHANGED mainVars

\* handleGetRequest: the route loop, with ReadFile on the matched route's link.
Route ==
    /\ pc = "route"
    /\ LET m == ScanRoutes(http.path, 1, <<>>)
       IN  IF m.matched = 0
           THEN /\ scan' = [matched |-> 0, examined |-> m.examined,
                            loads |-> <<>>, file |-> Missing, loaded |-> FALSE]
                /\ UNCHANGED <<response, size, acquired, released>>
           ELSE \E file \in Files, allocOk \in Outcomes, readOk \in Outcomes :
                   LET content == ReadFile(file, allocOk, readOk)
                       loaded  == content.ptr # "null"
                   IN  /\ scan' = [matched |-> m.matched, examined |-> m.examined,
                                   loads |-> <<getRouteMappings[m.matched].link>>,
                                   file |-> file, loaded |-> loaded]
                       /\ response' = RouteMatched(response, content)
                       /\ size' = IF loaded THEN content.size ELSE size
                       /\ acquired' = IF loaded THEN Acquire(acquired, "file") ELSE acquired
                       /\ released' = IF loaded THEN Release(released, "empty") ELSE released
    /\ pc' = "serialize"
    /\ UNCHANGED <<backlog, cstate, client_socket, open, buffer, http,
                   response_message, sent, log, crash, faulty>>
    /\ UNCHANGED mainVars

\* response_message = HttpResponseToString(&response, &size); on failure the
\* builder frees response->content and leaves size alone.
Serialize ==
    /\ pc = "serialize"
    /\ \E ok \in Outcomes :
          LET m == HttpResponseToString(response, ok)
          IN  /\ response_message' = m
              /\ IF m = NULL
                 THEN /\ released' = Release(released, response.content.ptr)
                      /\ log' = "Error in HttpResponseToString"
                      /\ UNCHANGED <<size, acquired>>
                 ELSE /\ size' = Len(m)
                      /\ acquired' = Acquire(acquired, "message")
                      /\ UNCHANGED <<released, log>>
    /\ pc' = "send"
    /\ UNCHANGED <<backlog, cstate, client_socket, open, buffer, http, response,
                   sent, scan, crash, faulty>>
    /\ UNCHANGED mainVars

\* send(client_socket, response_message, size, 0), and the report of its failure.
Send ==
    /\ pc = "send"
    /\ sent' = IF response_message = NULL THEN <<>> ELSE Take(response_message, size)
    /\ \E sendOk \in BOOLEAN :
          /\ response_message = NULL /\ size > 0 => ~sendOk
          /\ log' = IF sendOk THEN log ELSE "Error sending response"
    /\ pc' = "free_content"
    /\ UNCHANGED <<backlog, cstate, client_socket, open, buffer, http, response, size,
                   response_message, scan, acquired, released, crash, faulty>>
    /\ UNCHANGED mainVars

\* free(response.content); a second free of the same buffer aborts or goes unnoticed.
FreeContent ==
    /\ pc = "free_content"
    /\ released' = Release(released, response.content.ptr)
    /\ IF released[response.content.ptr] > 0
       THEN \E abort \in BOOLEAN :
               IF abort
               THEN Crash("handleGetRequest: double free of the content")
               ELSE pc' = "log_response" /\ UNCHANGED crash
       ELSE pc' = "log_response" /\ UNCHANGED crash
    /\ UNCHANGED <<backlog, cstate, client_socket, open, buffer, http, response, size,
                   response_message, sent, scan, acquired, log, faulty>>
    /\ UNCHANGED mainVars

\* printStringWithEscapeChars(response_message)
LogResponse ==
    /\ pc = "log_response"
    /\ IF response_message = NULL
       THEN Crash("printStringWithEscapeChars: read through the null message")
       ELSE pc' = "free_message" /\ UNCHANGED crash
    /\ UNCHANGED <<backlog, cstate, client_socket, open, buffer, http, response, size,
                   response_message, sent, scan, acquired, released, log, faulty>>
    /\ UNCHANGED mainVars

\* free(response_message)
FreeMessage ==
    /\ pc = "free_message"
    /\ released' = Release(released, "message")
    /\ pc' = "close"
    /\ UNCHANGED <<backlog, cstate, client_socket, open, buffer, http, response, size,
                   response_message, sent, scan, acquired, log, crash, faulty>>
    /\ UNCHANGED mainVars

\* close(client_socket)
Close ==
    /\ pc = "close"
    /\ open' = open \ {client_socket}
    /\ cstate' = [cstate EXCEPT ![client_socket] = "closed"]
    /\ released' = Release(released, "socket")
    /\ pc' = "free_http"
    /\ UNCHANGED <<backlog, client_socket, buffer, http, response, size,
                   response_message, sent, scan, acquired, log, crash, faulty>>
    /\ UNCHANGED mainVars

\* free(http)
FreeHttp ==
    /\ pc = "free_http"
    /\ released' = Release(released, "http")
    /\ pc' = "accept"
    /\ UNCHANGED <<backlog, cstate, client_socket, open, buffer, http, response, size,
                   response_message, sent, scan, acquired, log, crash, faulty>>
    /\ UNCHANGED mainVars

ServerStep ==
    \/ Accept
    \/ AcceptFail
    \/ Recv
    \/ RecvFail
    \/ Parse
    \/ Dispatch
    \/ GetInit
    \/ Route
    \/ Serialize
    \/ Send
    \/ FreeContent
    \/ LogResponse
    \/ FreeMessage
    \/ Close
    \/ FreeHttp

Next ==
    \/ \E c \in Clients : Connect(c)
    \/ ServerStep

Spec == Init /\ [][Next]_vars

\* The loop under the scheduling the claims assume: the server takes its next
\* step whenever it has one (accept and recv return once a connection or data
\* is there), and every client's connection attempt completes.
FairSpec ==
    /\ Init
    /\ [][Next]_vars
    /\ WF_vars(ServerStep)
    /\ \A c \in Clients : WF_vars(Connect(c))

-----------------------------------------------------------------------------
(* main. *)

MainInit ==
    /\ ServerInit
    /\ faulty = FALSE
    /\ mpc = "argc"
    /\ argc \in 1..4
    /\ ipOk \in BOOLEAN
    /\ portArg \in PortArgs
    /\ portStr = IntToStr(portArg)
    /\ port = 0
    /\ started = -1
    /\ exitCode = -1

\* if (argc != 3) return EXIT_FAILURE;
MainCheckArgc ==
    /\ mpc = "argc"
    /\ IF argc # 3
       THEN mpc' = "exit" /\ exitCode' = EXIT_FAILURE
       ELSE mpc' = "ip" /\ UNCHANGED exitCode
    /\ UNCHANGED <<argc, ipOk, portArg, portStr, port, started>>
    /\ UNCHANGED serverVars

\* if (inet_pton(AF_INET, ipAddressStr, &addr) != 1) return EXIT_FAILURE;
MainCheckIp ==
    /\ mpc = "ip"
    /\ IF ~ipOk
       THEN mpc' = "exit" /\ exitCode' = EXIT_FAILURE
       ELSE mpc' = "port" /\ UNCHANGED exitCode
    /\ UNCHANGED <<argc, ipOk, portArg, portStr, port, started>>
    /\ UNCHANGED serverVars

\* unsigned short port = atoi(portStr); the range check.
MainCheckPort ==
    /\ mpc = "port"
    /\ port' = ToUShort(Atoi(portStr))
    /\ IF PortRejected(port')
       THEN mpc' = "exit" /\ exitCode' = EXIT_FAILURE
       ELSE mpc' = "start" /\ UNCHANGED exitCode
    /\ UNCHANGED <<argc, ipOk, portArg, portStr, started>>
    /\ UNCHANGED serverVars

\* startHttpServer(addr.s_addr, htons(port)): socket, bind and listen succeed
\* and the loop is entered, or one fails and main returns EXIT_FAILURE.
\* started is the port in host byte order: htons here and the plain
\* assignment to sin_port in startHttpServer bind the socket to that port.
MainStart ==
    /\ mpc = "start"
    /\ started' = port
    /\ \E listening \in BOOLEAN :
          IF listening
          THEN mpc' = "serving" /\ UNCHANGED exitCode
          ELSE mpc' = "exit" /\ exitCode' = EXIT_FAILURE
    /\ UNCHANGED <<argc, ipOk, portArg, portStr, port>>
    /\ UNCHANGED serverVars

MainNext ==
    \/ MainCheckArgc
    \/ MainCheckIp
    \/ MainCheckPort
    \/ MainStart

MainSpec == MainInit /\ [][MainNext]_vars

-----------------------------------------------------------------------------
(* Reading a serialized response back, as a client would. *)

\* The status line, without its line end.
WireStatusLine(w) == Take(w, Strstr(w, <<CR, LF>>) - 1)

\* The number in the Content-Length header, -1 when there is none.
WireContentLength(w) ==
    LET p == Strstr(w, S_ContentLengthColon)
    IN  IF p = 0 THEN -1 ELSE ScanContentLength(Drop(w, p - 1), -1)

\* The number of bytes up to and including the blank-line separator.
WireHeaderLen(w) == Strstr(w, S_CRLFCRLF) + Len(S_CRLFCRLF) - 1

\* The bytes that follow the blank-line separator.
WireBody(w) == Drop(w, WireHeaderLen(w))

StatusLine(code, message) == S_HTTP11 \o code \o <<" ">> \o message

\* A serialized response was handed to send() in this iteration.
Responded == sent # NotSent /\ response_message # NULL

\* The current request was parsed and its method is exactly GET.
GetRequest == http.ptr = "heap" /\ http.method = S_GET

\* The routes whose path is byte-equal to the request's path.
EqualRoutes == {i \in 1..Len(getRouteMappings) : getRouteMappings[i].path = http.path}

\* The route loop of this iteration has run.
Routed == scan.examined # <<>>

-----------------------------------------------------------------------------
(* Claims. *)

\* C1: a GET request whose path equals a route's path and whose file loads is
\* answered, whatever bytes the file holds, with status 200 "OK", a
\* Content-Length equal to the file's size and a body equal to the file.
C1_LoadedFileIsServed ==
    (Responded /\ GetRequest /\ EqualRoutes # {} /\ scan.loaded)
        => /\ WireStatusLine(sent) = StatusLine(<<"2", "0", "0">>, S_OK)
           /\ WireContentLength(sent) = Len(scan.file)
           /\ WireBody(sent) = scan.file

\* C2: a GET request whose parsed path equals no route's path has the whole
\* table examined and no file loaded, and the response sent is 404
\* "Not Found" with Content-Length 0 and an empty body.
C2_NoRouteIs404 ==
    (GetRequest /\ EqualRoutes = {} /\ Routed)
        => /\ scan.matched = 0
           /\ scan.examined = [i \in 1..Len(getRouteMappings) |-> i]
           /\ scan.loads = <<>>
           /\ response.status_code = 404
           /\ response.content_length = 0
           /\ Responded =>
                 /\ WireStatusLine(sent) = StatusLine(<<"4", "0", "4">>, S_NotFound)
                 /\ WireContentLength(sent) = 0
                 /\ WireBody(sent) = <<>>
                 /\ Len(sent) = WireHeaderLen(sent)

\* C2's case: a 404 was sent for a GET request whose path was cut to the path
\* buffer's capacity.
C2_Witness ==
    /\ Responded
    /\ GetRequest
    /\ EqualRoutes = {}
    /\ Len(http.path) = MAX_PATH_SIZE - 1
    /\ WireStatusLine(sent) = StatusLine(<<"4", "0", "4">>, S_NotFound)

\* C3: a GET request whose path equals a route's path, when ReadFile fails on
\* that route's file, stops the scan at that route, and the response sent is
\* 500 "Internal Server Error" with Content-Length 0 and an empty body.
C3_LoadFailureIs500 ==
    (GetRequest /\ EqualRoutes # {} /\ Routed /\ ~scan.loaded)
        => /\ scan.matched \in EqualRoutes
           /\ \A i \in EqualRoutes : scan.matched <= i
           /\ scan.examined = [i \in 1..scan.matched |-> i]
           /\ scan.loads = <<getRouteMappings[scan.matched].link>>
           /\ response.status_code = 500
           /\ response.content_length = 0
           /\ Responded =>
                 /\ WireStatusLine(sent)
                       = StatusLine(<<"5", "0", "0">>, S_InternalServerError)
                 /\ WireContentLength(sent) = 0
                 /\ WireBody(sent) = <<>>
                 /\ Len(sent) = WireHeaderLen(sent)

\* C3's case: a 500 was sent for the second route, whose file exists but
\* could not be read into memory.
C3_Witness ==
    /\ Responded
    /\ GetRequest
    /\ scan.matched = 2
    /\ ~scan.loaded
    /\ scan.file # Missing
    /\ WireStatusLine(sent) = StatusLine(<<"5", "0", "0">>, S_InternalServerError)

\* C4: a parsed request whose method is not exactly "GET" causes no route
\* lookup, no file load and no bytes sent, and the loop is back at accept
\* only with its connection closed.
C4_OnlyGetIsDispatched ==
    (http.ptr = "heap" /\ http.method # S_GET)
        => /\ ~Routed
           /\ scan.loads = <<>>
           /\ sent = NotSent
           /\ pc \in {"dispatch", "close", "free_http", "accept"}
           /\ pc = "accept" => client_socket \notin open

\* C5: in every serialized response the number in the Content-Length header
\* is the number of bytes after the blank-line separator, and the size given
\* to send() is the header's length plus content_length.
C5_ContentLengthRoundTrip ==
    Responded
        => /\ WireContentLength(sent) = Len(WireBody(sent))
           /\ size = WireHeaderLen(sent) + response.content_length
           /\ Len(sent) = size

\* The request buffer being parsed holds two tokens, a Content-Length header
\* and the blank-line separator.
BufferHasBody ==
    /\ Strtok2(buffer).method # NULL
    /\ Strtok2(buffer).path # NULL
    /\ Strstr(buffer, S_ContentLengthColon) # 0
    /\ Strstr(buffer, S_CRLFCRLF) # 0

\* C6: when no allocation fails, a buffer with a valid request line, a header
\* Content-Length: n and the separator is parsed to completion, with
\* body_size n and as body the first min(n, 4096) bytes after the separator.
C6_BodyIsParsed ==
    (~faulty /\ BufferHasBody /\ pc \notin {"accept", "recv", "parse"})
        => /\ crash = ""
           /\ http.ptr = "heap"
           /\ http.body_size = WireContentLength(buffer)
           /\ http.body = Take(WireBody(buffer),
                               Min(WireContentLength(buffer), MAX_BODY_SIZE))

\* C7: every request parseHttpRequest returns that is not null has a method
\* and a path that are not empty.
C7_ParsedRequestHasMethodAndPath ==
    http.ptr = "heap" => http.method # <<>> /\ http.path # <<>>

\* C8: at most one client connection is open at any time, and when no
\* allocation fails every client that tries to connect is eventually taken
\* through accept to close.
C8_AllClientsServedInTurn ==
    /\ [](Cardinality(open) <= 1)
    /\ (~faulty) => <>(\A c \in Clients : cstate[c] = "closed")

\* C9: with a port argument outside 1..65534 main returns 1 without calling
\* startHttpServer, and the server is started only with the port given.
C9_PortRangeIsEnforced ==
    /\ portArg \notin 1..MAX_PORT
          => /\ started = -1
             /\ mpc \notin {"start", "serving"}
             /\ mpc = "exit" => exitCode = EXIT_FAILURE
    /\ started # -1 => started = portArg

\* C10: in every iteration each resource (the client socket, the request, the
\* content buffers, the serialized response) is released at most once, only
\* after it was acquired, and all of them by the time of the next accept.
C10_ReleasedExactlyOnce ==
    /\ \A r \in Resources : released[r] <= 1 /\ released[r] <= acquired[r]
    /\ pc = "accept" => released = acquired

====
